---- MODULE Spec2Model ----
(***************************************************************************)
(* A model of bacalhau_apiclient.models.job_sharding_config: the swagger   *)
(* generated JobShardingConfig model class.  A client constructs one       *)
(* instance and then calls on it, in any order and any number of times:    *)
(* the three property setters, to_dict, to_str, __repr__, and __eq__ and   *)
(* __ne__ against another instance or a value of another type.             *)
(*                                                                         *)
(* Python values are tagged records, so that values of different Python    *)
(* types are different TLA+ values and never compare equal:                *)
(*   None  [t |-> "none"]          int   [t |-> "int", i |-> 10]           *)
(*   str   [t |-> "str", s |-> ..] list  [t |-> "list", items |-> <<..>>]  *)
(*   dict  [t |-> "dict", d |-> [key |-> value]]                           *)
(*   bool  [t |-> "bool", b |-> TRUE]                                      *)
(*   a JobShardingConfig instance: [t |-> "JobShardingConfig", ...]        *)
(* A raised exception is the outcome [t |-> "raise", exc |-> ..].          *)
(***************************************************************************)
EXTENDS Integers, Sequences, FiniteSets, TLC

VARIABLES
    obj,    \* the instance under test, or NoInstance before it is constructed
    call,   \* the most recent call: its name, its receiver and its arguments
    ret     \* what the most recent call returned (or raised)

vars == <<obj, call, ret>>

(***************************************************************************)
(* Bounds of the model.                                                    *)
(***************************************************************************)
\* batch sizes offered to the constructor and setter: 0, 10, ..., 10 * MaxBatch
MaxBatch == 1
\* nesting depth of the list and dict values offered to glob_pattern_base_path
MaxDepth == 2

\* pprint.pformat's default line width (pformat is called with no width).
Width == 80

(***************************************************************************)
(* Python values.                                                          *)
(***************************************************************************)
NoneV == [t |-> "none"]
IntV(i) == [t |-> "int", i |-> i]
StrV(s) == [t |-> "str", s |-> s]
ListV(q) == [t |-> "list", items |-> q]
DictV(f) == [t |-> "dict", d |-> f]
BoolV(b) == [t |-> "bool", b |-> b]
Raised(e) == [t |-> "raise", exc |-> e]

\* No instance has been constructed yet.
NoInstance == [t |-> "unbound"]
\* A keyword argument the caller left out.
Absent == [t |-> "absent"]

\* Configuration(): the default configuration object; and one a caller passes.
DefaultConfiguration == [t |-> "Configuration", name |-> "default"]
CustomConfiguration == [t |-> "Configuration", name |-> "custom"]

(***************************************************************************)
(* The class attributes.                                                   *)
(***************************************************************************)
swagger_types ==
    [batch_size |-> "int", glob_pattern |-> "str", glob_pattern_base_path |-> "str"]

attribute_map ==
    [batch_size |-> "BatchSize", glob_pattern |-> "GlobPattern",
     glob_pattern_base_path |-> "GlobPatternBasePath"]

(***************************************************************************)
(* Getters and setters.  self is an instance record.                       *)
(***************************************************************************)
batch_size(self) == self._batch_size

glob_pattern(self) == self._glob_pattern

glob_pattern_base_path(self) == self._glob_pattern_base_path

\* A setter that also overwrites the neighbouring field.
batch_size_setter_clobber(self, value) ==
    [self EXCEPT !._batch_size = value, !._glob_pattern = value]

batch_size_setter(self, value) == [self EXCEPT !._batch_size = value]

\* A setter that treats None as "no change".
glob_pattern_setter_keep(self, value) ==
    IF value = NoneV THEN self ELSE [self EXCEPT !._glob_pattern = value]

glob_pattern_setter(self, value) == [self EXCEPT !._glob_pattern = value]

glob_pattern_base_path_setter(self, value) ==
    [self EXCEPT !._glob_pattern_base_path = value]

(***************************************************************************)
(* __init__.  The four parameters default to None; a parameter that is     *)
(* None leaves its field at the None the constructor first stores.         *)
(***************************************************************************)
\* A constructor that tests the arguments for truth instead of "is not None".
__init__truthy(b, g, p, c) ==
    LET truthy(v) == v \notin {NoneV, IntV(0), StrV("")}
        s0 == [t |-> "JobShardingConfig",
               _configuration |-> IF c = NoneV THEN DefaultConfiguration ELSE c,
               _batch_size |-> NoneV,
               _glob_pattern |-> NoneV,
               _glob_pattern_base_path |-> NoneV,
               discriminator |-> NoneV]
        s1 == IF truthy(b) THEN batch_size_setter(s0, b) ELSE s0
        s2 == IF truthy(g) THEN glob_pattern_setter(s1, g) ELSE s1
    IN  IF truthy(p) THEN glob_pattern_base_path_setter(s2, p) ELSE s2

\* A constructor that never stores glob_pattern_base_path.
__init__drop(b, g, p, c) ==
    LET s0 == [t |-> "JobShardingConfig",
               _configuration |-> IF c = NoneV THEN DefaultConfiguration ELSE c,
               _batch_size |-> NoneV,
               _glob_pattern |-> NoneV,
               _glob_pattern_base_path |-> NoneV,
               discriminator |-> NoneV]
        s1 == IF b # NoneV THEN batch_size_setter(s0, b) ELSE s0
    IN  IF g # NoneV THEN glob_pattern_setter(s1, g) ELSE s1

__init__(b, g, p, c) ==
    LET s0 == [t |-> "JobShardingConfig",
               _configuration |-> IF c = NoneV THEN DefaultConfiguration ELSE c,
               _batch_size |-> NoneV,
               _glob_pattern |-> NoneV,
               _glob_pattern_base_path |-> NoneV,
               discriminator |-> NoneV]
        s1 == IF b # NoneV THEN batch_size_setter(s0, b) ELSE s0
        s2 == IF g # NoneV THEN glob_pattern_setter(s1, g) ELSE s1
    IN  IF p # NoneV THEN glob_pattern_base_path_setter(s2, p) ELSE s2

(***************************************************************************)
(* Python built-ins used by the class.                                     *)
(***************************************************************************)
isinstance(x, type) == x.t = type

\* hasattr(x, "to_dict"): of the values of this model, only model instances
\* have a to_dict method.
hasattr_to_dict(x) == x.t = "JobShardingConfig"

getattr(self, attr) ==
    CASE attr = "batch_size" -> batch_size(self)
      [] attr = "glob_pattern" -> glob_pattern(self)
      [] attr = "glob_pattern_base_path" -> glob_pattern_base_path(self)

(***************************************************************************)
(* to_dict.  The loop visits every attribute of swagger_types; a list is   *)
(* tested for first, then a value with a to_dict method, then a dict.  The *)
(* two lambdas convert the elements of a list and the values of a dict     *)
(* that have a to_dict method and keep every other element as it is.  The  *)
(* class is no subclass of dict, so the trailing loop over self.items()    *)
(* never runs.                                                             *)
(***************************************************************************)
RECURSIVE to_dict(_)
\* to_dict keyed by the wire names of attribute_map.
to_dict_wire(self) ==
    LET convert(x) == IF hasattr_to_dict(x) THEN to_dict(x) ELSE x
        entry(attr) ==
            LET value == getattr(self, attr)
            IN  IF isinstance(value, "list")
                  THEN ListV([k \in DOMAIN value.items |-> convert(value.items[k])])
                ELSE IF hasattr_to_dict(value)
                  THEN to_dict(value)
                ELSE IF isinstance(value, "dict")
                  THEN DictV([k \in DOMAIN value.d |-> convert(value.d[k])])
                ELSE value
    IN  DictV([key \in {attribute_map[a] : a \in DOMAIN swagger_types} |->
                 entry(CHOOSE a \in DOMAIN swagger_types : attribute_map[a] = key)])

\* to_dict that leaves out the attributes that are None.
to_dict_skip_none(self) ==
    LET convert(x) == IF hasattr_to_dict(x) THEN to_dict(x) ELSE x
        entry(attr) ==
            LET value == getattr(self, attr)
            IN  IF isinstance(value, "list")
                  THEN ListV([k \in DOMAIN value.items |-> convert(value.items[k])])
                ELSE IF hasattr_to_dict(value)
                  THEN to_dict(value)
                ELSE IF isinstance(value, "dict")
                  THEN DictV([k \in DOMAIN value.d |-> convert(value.d[k])])
                ELSE value
    IN  DictV([attr \in {a \in DOMAIN swagger_types : getattr(self, a) # NoneV} |->
                 entry(attr)])

\* to_dict that copies a list as it is, converting none of its elements.
to_dict_flat(self) ==
    LET convert(x) == IF hasattr_to_dict(x) THEN to_dict(x) ELSE x
        entry(attr) ==
            LET value == getattr(self, attr)
            IN  IF isinstance(value, "list")
                  THEN value
                ELSE IF hasattr_to_dict(value)
                  THEN to_dict(value)
                ELSE IF isinstance(value, "dict")
                  THEN DictV([k \in DOMAIN value.d |-> convert(value.d[k])])
                ELSE value
    IN  DictV([attr \in DOMAIN swagger_types |-> entry(attr)])

to_dict(self) ==
    LET convert(x) == IF hasattr_to_dict(x) THEN to_dict(x) ELSE x
        entry(attr) ==
            LET value == getattr(self, attr)
            IN  IF isinstance(value, "list")
                  THEN ListV([k \in DOMAIN value.items |-> convert(value.items[k])])
                ELSE IF hasattr_to_dict(value)
                  THEN to_dict(value)
                ELSE IF isinstance(value, "dict")
                  THEN DictV([k \in DOMAIN value.d |-> convert(value.d[k])])
                ELSE value
    IN  DictV([attr \in DOMAIN swagger_types |-> entry(attr)])

(***************************************************************************)
(* Python's == on the values of this model: lists and dicts compare        *)
(* element by element, two model instances through __eq__ (their to_dict   *)
(* forms), values of different types are unequal.                          *)
(***************************************************************************)
RECURSIVE PyEq(_, _)
PyEq(x, y) ==
    IF x.t # y.t THEN FALSE
    ELSE IF x.t = "list"
      THEN /\ Len(x.items) = Len(y.items)
           /\ \A k \in DOMAIN x.items : PyEq(x.items[k], y.items[k])
    ELSE IF x.t = "dict"
      THEN /\ DOMAIN x.d = DOMAIN y.d
           /\ \A k \in DOMAIN x.d : PyEq(x.d[k], y.d[k])
    ELSE IF x.t = "JobShardingConfig"
      THEN PyEq(to_dict(x), to_dict(y))
    ELSE x = y

(***************************************************************************)
(* __eq__ and __ne__.                                                      *)
(***************************************************************************)
\* __eq__ that compares every attribute of the two objects (their __dict__),
\* the configuration included.
__eq__dict(self, other) ==
    IF ~isinstance(other, "JobShardingConfig")
      THEN BoolV(FALSE)
      ELSE BoolV(/\ PyEq(to_dict(self), to_dict(other))
                 /\ self._configuration = other._configuration)

\* __eq__ without the isinstance test: other.to_dict() fails on a value that
\* has no such method.
__eq__nocheck(self, other) ==
    IF ~hasattr_to_dict(other)
      THEN Raised("AttributeError")
      ELSE BoolV(PyEq(to_dict(self), to_dict(other)))

__eq__(self, other) ==
    IF ~isinstance(other, "JobShardingConfig")
      THEN BoolV(FALSE)
      ELSE BoolV(PyEq(to_dict(self), to_dict(other)))

__ne__(self, other) ==
    IF ~isinstance(other, "JobShardingConfig")
      THEN BoolV(TRUE)
      ELSE BoolV(~PyEq(to_dict(self), to_dict(other)))

(***************************************************************************)
(* pprint.pformat, as to_str calls it (width 80, indent 1, not compact).   *)
(* SafeRepr is the one-line repr; Format breaks a dict or a list whose     *)
(* repr does not fit the remaining width into one entry per line.  Dict    *)
(* keys are rendered in sorted order.  The strings of this model are far   *)
(* shorter than a line, so pprint's wrapping of long strings never acts.   *)
(***************************************************************************)
\* The dict keys of this model, in Python's sort order.
KeyOrder == <<"batch_size", "glob_pattern", "glob_pattern_base_path", "k", "l">>

SortedKeys(f) == SelectSeq(KeyOrder, LAMBDA k : k \in DOMAIN f)

RECURSIVE Spaces(_)
Spaces(n) == IF n <= 0 THEN "" ELSE " " \o Spaces(n - 1)

Quoted(s) == "'" \o s \o "'"

RECURSIVE SafeRepr(_), Format(_, _, _), to_str(_)
SafeRepr(x) ==
    LET RECURSIVE Join(_, _)
        Join(q, n) ==
            IF n > Len(q) THEN ""
            ELSE q[n] \o (IF n < Len(q) THEN ", " ELSE "") \o Join(q, n + 1)
    IN  CASE x.t = "none" -> "None"
          [] x.t = "int" -> ToString(x.i)
          [] x.t = "str" -> Quoted(x.s)
          [] x.t = "bool" -> IF x.b THEN "True" ELSE "False"
          [] x.t = "list" ->
                "[" \o Join([k \in DOMAIN x.items |-> SafeRepr(x.items[k])], 1) \o "]"
          [] x.t = "dict" ->
                LET keys == SortedKeys(x.d)
                IN  "{" \o Join([k \in DOMAIN keys |->
                                   Quoted(keys[k]) \o ": " \o SafeRepr(x.d[keys[k]])], 1)
                        \o "}"
          [] x.t = "JobShardingConfig" -> to_str(x).s

Format(x, indent, allowance) ==
    LET rep == SafeRepr(x)
        RECURSIVE DictItems(_, _, _, _)
        DictItems(keys, n, ind, allow) ==
            IF n > Len(keys) THEN ""
            ELSE LET last == n = Len(keys)
                     krep == Quoted(keys[n])
                 IN  krep \o ": "
                     \o Format(x.d[keys[n]], ind + Len(krep) + 2,
                               IF last THEN allow ELSE 1)
                     \o (IF last THEN "" ELSE ",\n" \o Spaces(ind))
                     \o DictItems(keys, n + 1, ind, allow)
        RECURSIVE Items(_, _, _)
        Items(n, ind, allow) ==
            IF n > Len(x.items) THEN ""
            ELSE LET last == n = Len(x.items)
                 IN  Format(x.items[n], ind, IF last THEN allow ELSE 1)
                     \o (IF last THEN "" ELSE ",\n" \o Spaces(ind))
                     \o Items(n + 1, ind, allow)
    IN  IF Len(rep) > Width - indent - allowance /\ x.t = "dict"
          THEN "{" \o DictItems(SortedKeys(x.d), 1, indent + 1, allowance + 1) \o "}"
        ELSE IF Len(rep) > Width - indent - allowance /\ x.t = "list"
          THEN "[" \o Items(1, indent + 1, allowance + 1) \o "]"
        ELSE rep

pformat(x) == Format(x, 0, 0)

to_str(self) == StrV(pformat(to_dict(self)))

\* __repr__ as object defines it, not delegating to to_str.
__repr__default(self) == StrV("<JobShardingConfig object>")

__repr__(self) == to_str(self)

(***************************************************************************)
(* The values a caller passes.  The class checks no type, so a field may   *)
(* hold any value; glob_pattern_base_path is also offered a nested model   *)
(* instance, that instance's dict form, and a list and a dict that hold    *)
(* nested instances down to MaxDepth levels.                               *)
(***************************************************************************)
\* A nested model instance (a value with a to_dict method).
Inner == __init__(IntV(10), NoneV, NoneV, CustomConfiguration)

\* [Inner], [Inner, [Inner]], [Inner, [Inner, [Inner]]], ...
RECURSIVE NestedList(_)
NestedList(depth) ==
    IF depth <= 1 THEN ListV(<<Inner>>)
    ELSE ListV(<<Inner, NestedList(depth - 1)>>)

\* {"k": Inner}, {"k": Inner, "l": [Inner]}, {"k": Inner, "l": [Inner, [Inner]]}, ...
NestedDict(depth) ==
    IF depth <= 1 THEN DictV([k |-> Inner])
    ELSE DictV([k |-> Inner, l |-> NestedList(depth - 1)])

BatchSizeValues == {NoneV} \cup {IntV(10 * n) : n \in 0..MaxBatch}

GlobPatternValues == {NoneV, StrV(""), StrV("/*")}

GlobPatternBasePathValues ==
    {NoneV, StrV(""), StrV("/data"), Inner, to_dict(Inner),
     NestedList(MaxDepth), NestedDict(MaxDepth)}

ConfigurationValues == {NoneV, CustomConfiguration}

\* A keyword argument that was left out takes the parameter's default, None.
Arg(x) == IF x = Absent THEN NoneV ELSE x

\* Every instance a client can build: one per combination of field values.
\* They carry a configuration of their own.
Instances ==
    {__init__(b, g, p, CustomConfiguration) :
        b \in BatchSizeValues, g \in GlobPatternValues, p \in GlobPatternBasePathValues}

\* Values that are no JobShardingConfig: None, an integer, a string, and a
\* plain dict equal to self.to_dict().
NonInstances(self) == {NoneV, IntV(10), StrV("/*"), to_dict(self)}

\* What an instance is compared with, once there is one: itself, any other
\* instance, and values of other types.
Others(self) ==
    IF self = NoInstance THEN {}
    ELSE {self} \cup Instances \cup NonInstances(self)

(***************************************************************************)
(* The state before the client constructs the instance.                    *)
(***************************************************************************)
Init ==
    /\ obj = NoInstance
    /\ call = [op |-> "start"]
    /\ ret = NoneV

(***************************************************************************)
(* obj = JobShardingConfig(batch_size=b, glob_pattern=g,                   *)
(*                         glob_pattern_base_path=p, _configuration=c)     *)
(* with any of the keywords left out (Absent).                             *)
(***************************************************************************)
Construct(b, g, p, c) ==
    /\ obj = NoInstance
    /\ obj' = __init__(Arg(b), Arg(g), Arg(p), Arg(c))
    /\ call' = [op |-> "__init__",
                kwargs |-> [batch_size |-> b, glob_pattern |-> g,
                            glob_pattern_base_path |-> p, _configuration |-> c]]
    /\ ret' = NoneV

\* obj.batch_size = value
SetBatchSize(value) ==
    /\ obj # NoInstance
    /\ obj' = batch_size_setter(obj, value)
    /\ call' = [op |-> "set", attr |-> "batch_size", value |-> value]
    /\ ret' = NoneV

\* obj.glob_pattern = value
SetGlobPattern(value) ==
    /\ obj # NoInstance
    /\ obj' = glob_pattern_setter(obj, value)
    /\ call' = [op |-> "set", attr |-> "glob_pattern", value |-> value]
    /\ ret' = NoneV

\* obj.glob_pattern_base_path = value
SetGlobPatternBasePath(value) ==
    /\ obj # NoInstance
    /\ obj' = glob_pattern_base_path_setter(obj, value)
    /\ call' = [op |-> "set", attr |-> "glob_pattern_base_path", value |-> value]
    /\ ret' = NoneV

\* obj.to_dict()
ToDict ==
    /\ obj # NoInstance
    /\ ret' = to_dict(obj)
    /\ call' = [op |-> "to_dict"]
    /\ UNCHANGED obj

\* obj.to_str()
ToStr ==
    /\ obj # NoInstance
    /\ ret' = to_str(obj)
    /\ call' = [op |-> "to_str"]
    /\ UNCHANGED obj

\* repr(obj)
Repr ==
    /\ obj # NoInstance
    /\ ret' = __repr__(obj)
    /\ call' = [op |-> "__repr__"]
    /\ UNCHANGED obj

\* obj == other
Eq(other) ==
    /\ obj # NoInstance
    /\ ret' = __eq__(obj, other)
    /\ call' = [op |-> "__eq__", other |-> other]
    /\ UNCHANGED obj

\* obj != other
Ne(other) ==
    /\ obj # NoInstance
    /\ ret' = __ne__(obj, other)
    /\ call' = [op |-> "__ne__", other |-> other]
    /\ UNCHANGED obj

Next ==
    \/ \E b \in BatchSizeValues \cup {Absent}, g \in GlobPatternValues \cup {Absent},
          p \in GlobPatternBasePathValues \cup {Absent},
          c \in ConfigurationValues \cup {Absent} : Construct(b, g, p, c)
    \/ \E value \in BatchSizeValues : SetBatchSize(value)
    \/ \E value \in GlobPatternValues : SetGlobPattern(value)
    \/ \E value \in GlobPatternBasePathValues : SetGlobPatternBasePath(value)
    \/ ToDict
    \/ ToStr
    \/ Repr
    \/ \E other \in Others(obj) : Eq(other)
    \/ \E other \in Others(obj) : Ne(other)

Spec == Init /\ [][Next]_vars

(***************************************************************************)
(* Vocabulary of the properties.                                           *)
(***************************************************************************)
Fields == DOMAIN swagger_types

WireNames == {attribute_map[f] : f \in Fields}

\* None, an integer or a string: a value to_dict has nothing to convert in.
Plain(v) == v.t \in {"none", "int", "str"}

PlainFields(self) == \A f \in Fields : Plain(getattr(self, f))

\* Two instances hold the same three field values (as Python's == sees them).
SameFields(x, y) == \A f \in Fields : PyEq(getattr(x, f), getattr(y, f))

\* The instance a client gets by building obj's fields again but leaving
\* field f out of the constructor call.
Without(self, f) ==
    __init__(IF f = "batch_size" THEN NoneV ELSE batch_size(self),
             IF f = "glob_pattern" THEN NoneV ELSE glob_pattern(self),
             IF f = "glob_pattern_base_path" THEN NoneV
             ELSE glob_pattern_base_path(self),
             NoneV)

Queries == {"to_dict", "to_str", "__repr__", "__eq__", "__ne__"}

C3_ThreeEntries ==
    obj # NoInstance =>
        /\ DOMAIN to_dict(obj).d = Fields
        /\ Cardinality(DOMAIN to_dict(obj).d) = 3
        /\ call.op = "to_dict" => ret = to_dict(obj)
        /\ call.op = "__init__" =>
              \A f \in Fields :
                  call.kwargs[f] \in {Absent, NoneV} => to_dict(obj).d[f] = NoneV

C3_EntryChangesOnlyBySetter ==
    (obj # NoInstance /\ obj' # NoInstance) =>
        \A f \in Fields :
            to_dict(obj').d[f] # to_dict(obj).d[f]
                => (call'.op = "set" /\ call'.attr = f)

C3_AlwaysThreeEntries ==
    [](C3_ThreeEntries) /\ [][C3_EntryChangesOnlyBySetter]_vars

C3_Witness ==
    /\ call.op = "to_dict"
    /\ \A f \in Fields : getattr(obj, f) = NoneV
    /\ ret = DictV([batch_size |-> NoneV, glob_pattern |-> NoneV,
                    glob_pattern_base_path |-> NoneV])

(***************************************************************************)
(* C4 as stated: for any two instances, a == b is true if and only if they *)
(* have the same batch_size, the same glob_pattern and the same            *)
(* glob_pattern_base_path.                                                 *)
(***************************************************************************)
C4_EqualIffSameFields ==
    (call.op = "__eq__" /\ isinstance(call.other, "JobShardingConfig")) =>
        (ret = BoolV(TRUE) <=> SameFields(obj, call.other))

(***************************************************************************)
(* C4, amended: for any two instances, whatever _configuration each was    *)
(* given, a == b is true whenever they have the same three field values;   *)
(* and when the fields of both hold only None, integers or strings, a == b *)
(* is true if and only if they have the same three field values, so that   *)
(* changing any single field of one of two equal instances to a different  *)
(* such value makes them unequal.  (Instances whose fields differ can be   *)
(* equal when the differing values have the same to_dict form.)            *)
(***************************************************************************)
C4_EqualIffSamePlainFields ==
    (call.op = "__eq__" /\ isinstance(call.other, "JobShardingConfig")) =>
        /\ ret \in {BoolV(TRUE), BoolV(FALSE)}
        /\ SameFields(obj, call.other) => ret = BoolV(TRUE)
        /\ (PlainFields(obj) /\ PlainFields(call.other)) =>
              /\ ret = BoolV(TRUE) <=> SameFields(obj, call.other)
              /\ ret = BoolV(TRUE) =>
                    /\ \A v \in BatchSizeValues \ {batch_size(obj)} :
                          __eq__(batch_size_setter(obj, v), call.other) = BoolV(FALSE)
                    /\ \A v \in GlobPatternValues \ {glob_pattern(obj)} :
                          __eq__(glob_pattern_setter(obj, v), call.other) = BoolV(FALSE)
                    /\ \A v \in {w \in GlobPatternBasePathValues : Plain(w)}
                                  \ {glob_pattern_base_path(obj)} :
                          __eq__(glob_pattern_base_path_setter(obj, v), call.other)
                              = BoolV(FALSE)

\* Two distinct objects with different configurations and equal fields.
C4_Witness ==
    /\ call.op = "__eq__"
    /\ isinstance(call.other, "JobShardingConfig")
    /\ obj._configuration # call.other._configuration
    /\ batch_size(obj) = IntV(10)
    /\ glob_pattern(obj) = StrV("/*")
    /\ SameFields(obj, call.other)
    /\ ret = BoolV(TRUE)

(***************************************************************************)
(* C5: a != x is the negation of a == x for every x; when x is not a       *)
(* JobShardingConfig (None, an integer, a string, a plain dict equal to    *)
(* a.to_dict()), a == x is False and a != x is True; neither raises.       *)
(***************************************************************************)
C5_NeNegatesEq ==
    /\ call.op = "__eq__" =>
          /\ ret \in {BoolV(TRUE), BoolV(FALSE)}
          /\ __ne__(obj, call.other) = BoolV(~ret.b)
          /\ ~isinstance(call.other, "JobShardingConfig") => ret = BoolV(FALSE)
    /\ call.op = "__ne__" =>
          /\ ret \in {BoolV(TRUE), BoolV(FALSE)}
          /\ __eq__(obj, call.other) = BoolV(~ret.b)
          /\ ~isinstance(call.other, "JobShardingConfig") => ret = BoolV(TRUE)

C5_Witness ==
    /\ call.op = "__eq__"
    /\ call.other = to_dict(obj)
    /\ ret = BoolV(FALSE)
    /\ __ne__(obj, call.other) = BoolV(TRUE)

(***************************************************************************)
(* C6: a field never assigned and a field set to None are the same         *)
(* observable state.  For each field f: after a construction that leaves f *)
(* out, after a construction that passes f as None, and after a setter     *)
(* call that stores None in f, the getter of f returns None, and to_dict() *)
(* is the to_dict() of, and the instance compares equal to, an instance    *)
(* built from the same other fields with f left out.                       *)
(***************************************************************************)
C6_UnsetIsNone ==
    \A f \in Fields :
        (\/ call.op = "__init__" /\ call.kwargs[f] \in {Absent, NoneV}
         \/ call.op = "set" /\ call.attr = f /\ call.value = NoneV)
        => /\ getattr(obj, f) = NoneV
           /\ to_dict(obj).d[f] = NoneV
           /\ to_dict(obj) = to_dict(Without(obj, f))
           /\ __eq__(obj, Without(obj, f)) = BoolV(TRUE)
           /\ __ne__(obj, Without(obj, f)) = BoolV(FALSE)

\* glob_pattern was given a value by the constructor's caller or a setter
\* (the other fields show the instance was in use) and then set to None.
C6_Witness ==
    /\ call.op = "set"
    /\ call.attr = "glob_pattern"
    /\ call.value = NoneV
    /\ glob_pattern(obj) = NoneV
    /\ batch_size(obj) = IntV(10)
    /\ glob_pattern_base_path(obj) = StrV("/data")

(***************************************************************************)
(* C7: a supplied falsy value is kept distinct from unset.  Constructing   *)
(* with glob_pattern="" (or glob_pattern_base_path="", or batch_size=0)    *)
(* stores exactly that value: the getter returns it and not None,          *)
(* to_dict() differs from that of an instance where the field was never    *)
(* set, and the two instances are not equal.                               *)
(***************************************************************************)
C7_FalsyKept ==
    call.op = "__init__" =>
        \A f \in Fields :
            call.kwargs[f] \in {StrV(""), IntV(0)} =>
                /\ getattr(obj, f) = call.kwargs[f]
                /\ getattr(obj, f) # NoneV
                /\ to_dict(obj).d[f] = call.kwargs[f]
                /\ to_dict(obj) # to_dict(Without(obj, f))
                /\ __eq__(obj, Without(obj, f)) = BoolV(FALSE)
                /\ __ne__(obj, Without(obj, f)) = BoolV(TRUE)

C7_Witness ==
    /\ call.op = "__init__"
    /\ call.kwargs.glob_pattern = StrV("")
    /\ call.kwargs.batch_size = IntV(0)
    /\ call.kwargs.glob_pattern_base_path = StrV("")
    /\ glob_pattern(obj) = StrV("")
    /\ batch_size(obj) = IntV(0)
    /\ glob_pattern_base_path(obj) = StrV("")

(***************************************************************************)
(* C8: each setter replaces its own field unconditionally and touches      *)
(* nothing else.  In every step: a setter call leaves its field holding    *)
(* the value passed, leaves the other two fields and the configuration as  *)
(* they were, and returns without raising; a constructor call leaves each  *)
(* field holding the value passed for it, or None, and does not raise; any *)
(* other call changes no field.  So each getter returns the value most     *)
(* recently assigned to its field, or None if it was never assigned.       *)
(***************************************************************************)
C8_Step ==
    /\ call'.op = "set" =>
          /\ obj # NoInstance
          /\ getattr(obj', call'.attr) = call'.value
          /\ \A f \in Fields \ {call'.attr} : getattr(obj', f) = getattr(obj, f)
          /\ obj'._configuration = obj._configuration
          /\ ret' = NoneV
    /\ call'.op = "__init__" =>
          /\ \A f \in Fields : getattr(obj', f) = Arg(call'.kwargs[f])
          /\ ret' = NoneV
    /\ call'.op \notin {"set", "__init__"} =>
          \A f \in Fields : getattr(obj', f) = getattr(obj, f)

C8_SettersReplaceOwnField == [][C8_Step]_vars

\* batch_size was just replaced by 0; the other fields still hold the values
\* given earlier, one of them a value of another type than the declared str.
C8_Witness ==
    /\ call.op = "set"
    /\ call.attr = "batch_size"
    /\ call.value = IntV(0)
    /\ batch_size(obj) = IntV(0)
    /\ glob_pattern(obj) = StrV("/*")
    /\ glob_pattern_base_path(obj) = NestedList(MaxDepth)
    /\ ret = NoneV

(***************************************************************************)
(* C9: to_str() is a deterministic function of the three field values      *)
(* only.  Any instance with the same three field values as obj (and        *)
(* another configuration) has the same to_str(); a to_str() call returns   *)
(* that string each time; __repr__ returns the same string as to_str();    *)
(* and a call of to_str, __repr__, to_dict, == or != leaves the instance   *)
(* as it was.                                                              *)
(***************************************************************************)
C9_State ==
    obj # NoInstance =>
        /\ \A o \in Instances : SameFields(obj, o) => to_str(o) = to_str(obj)
        /\ to_str(obj).t = "str"
        /\ __repr__(obj) = to_str(obj)
        /\ call.op \in {"to_str", "__repr__"} => ret = to_str(obj)

C9_QueryStep == call'.op \in Queries => obj' = obj

C9_ToStrDeterministic == [](C9_State) /\ [][C9_QueryStep]_vars

C9_Witness ==
    /\ call.op = "__repr__"
    /\ obj._configuration = DefaultConfiguration
    /\ batch_size(obj) = IntV(10)
    /\ glob_pattern(obj) = StrV("/*")
    /\ glob_pattern_base_path(obj) = StrV("/data")
    /\ ret = StrV("{'batch_size': 10, 'glob_pattern': '/*', 'glob_pattern_base_path': '/data'}")

(***************************************************************************)
(* C10 as stated: to_dict() converts nested values recursively, at every   *)
(* nesting depth: a value with a to_dict method becomes its to_dict()      *)
(* output, a list becomes the list of its converted elements, a dict the   *)
(* dict of its converted values, also for the elements and values that are *)
(* themselves lists or dicts.                                              *)
(***************************************************************************)
RECURSIVE DeepConvert(_)
DeepConvert(v) ==
    IF hasattr_to_dict(v) THEN to_dict(v)
    ELSE IF v.t = "list" THEN ListV([k \in DOMAIN v.items |-> DeepConvert(v.items[k])])
    ELSE IF v.t = "dict" THEN DictV([k \in DOMAIN v.d |-> DeepConvert(v.d[k])])
    ELSE v

C10_ConvertsAtEveryDepth ==
    call.op = "to_dict" =>
        \A f \in Fields : ret.d[f] = DeepConvert(getattr(obj, f))

(***************************************************************************)
(* C10, amended: to_dict() converts nested values one level deep.  A field *)
(* value with a to_dict method is replaced by its to_dict() output; in a   *)
(* field value that is a list, each element with a to_dict method is       *)
(* replaced by its to_dict() output and every other element, a list or a   *)
(* dict included, is kept as it is; in a field value that is a dict, the   *)
(* same holds of its values, with the keys kept; any other value is used   *)
(* as it is.                                                               *)
(***************************************************************************)
C10_ConvertsOneLevel ==
    call.op = "to_dict" =>
        \A f \in Fields :
            LET v == getattr(obj, f)
                r == ret.d[f]
            IN  /\ hasattr_to_dict(v) => r = to_dict(v)
                /\ v.t = "list" =>
                      /\ r.t = "list"
                      /\ Len(r.items) = Len(v.items)
                      /\ \A k \in 1..Len(v.items) :
                            /\ hasattr_to_dict(v.items[k])
                                  => r.items[k] = to_dict(v.items[k])
                            /\ ~hasattr_to_dict(v.items[k])
                                  => r.items[k] = v.items[k]
                /\ v.t = "dict" =>
                      /\ r.t = "dict"
                      /\ DOMAIN r.d = DOMAIN v.d
                      /\ \A k \in DOMAIN v.d :
                            /\ hasattr_to_dict(v.d[k]) => r.d[k] = to_dict(v.d[k])
                            /\ ~hasattr_to_dict(v.d[k]) => r.d[k] = v.d[k]
                /\ Plain(v) => r = v

\* A list whose first element is a model instance (converted) and whose
\* second element is a list holding a model instance (kept as it is).
C10_Witness ==
    /\ call.op = "to_dict"
    /\ glob_pattern_base_path(obj) = NestedList(MaxDepth)
    /\ Len(ret.d["glob_pattern_base_path"].items) = 2
    /\ ret.d["glob_pattern_base_path"].items[1] = to_dict(Inner)
    /\ ret.d["glob_pattern_base_path"].items[2].t = "list"
    /\ ret.d["glob_pattern_base_path"].items[2].items[1] = Inner

====
